---- MODULE Spec2Model ----
(***************************************************************************)
(* Model of volatility/framework/interfaces/layers.py: the Memory layer    *)
(* container (add_layer, del_layer, check_cycles, free_layer_name), the    *)
(* scan pipeline of DataLayerInterface (scan, _scan_iterator, _scan_chunk, *)
(* sequential and parallel), read, write and _scan_iterator of             *)
(* TranslationLayerInterface, and the metadata of the layers.              *)
(*                                                                         *)
(* The specifications share the variables:                                 *)
(*   Spec      a Memory built from empty by add_layer / del_layer calls    *)
(*   SpecExt   a Memory whose _layers dict was populated directly          *)
(*   SpecScan  one sequential scan of a fully readable DataLayer, stepped  *)
(*             through the generator _scan_iterator                        *)
(*   SpecGaps  a sequential scan of a DataLayer with unreadable addresses  *)
(*   SpecTScan a sequential scan of a TranslationLayer                     *)
(*   SpecPar   a sequential scan followed by a parallel scan of the same   *)
(*             DataLayer                                                   *)
(*   SpecRW    one TranslationLayerInterface.read or write                 *)
(*   SpecMeta  layers constructed with metadata                            *)
(*   SpecFree  Memory.free_layer_name on a Memory of numbered names        *)
(*   SpecMask  address_mask of a layer                                     *)
(***************************************************************************)
EXTENDS Integers, Sequences, FiniteSets, TLC

VARIABLES
    layers,      \* Memory._layers: function from the held names to layer objects
    last,        \* record of the latest Memory call: arguments, result, effects
    scanLayer,   \* the layer being scanned: minimum_address, maximum_address
    scanner,     \* the scanner: chunk_size, overlap
    args,        \* min_address / max_address as passed to scan (None or a value)
    pc,          \* position inside scan / _scan_iterator
    exc,         \* exception raised by scan, "" if none
    bounds,      \* the resolved min_address / max_address of scan
    it,          \* locals of _scan_iterator
    chunks,      \* the iterator values yielded so far, in order
    table,       \* None for a DataLayer, the translation table of a TranslationLayer
    mapq,        \* the mapping tuples _scan_iterator has still to walk
    env,         \* what the scan runs against: parallel mode, unreadable addresses
    calls,       \* the scanner invocations so far, in order
    matches,     \* the matches yielded to the consumer so far, in order
    progress,    \* progress.value
    results,     \* parallel mode: the state of the pool task of each chunk
    prior,       \* the matches of the previous scan, None if there was none
    store,       \* the bytes written into the underlying layers, by layer and address
    io,          \* the latest read / write of the TranslationLayer and its result
    direct_metadata,  \* first map of DataLayerInterface._direct_metadata
    built,       \* the layers constructed so far: dependencies, constructor metadata
    mask         \* the value address_mask returned, None before the call

memvars == <<layers, last>>
scanvars == <<scanLayer, scanner, args, pc, exc, bounds, it, chunks>>
pipevars == <<table, mapq, env, calls, matches, progress, results, prior>>
rwvars == <<store, io>>
metavars == <<direct_metadata, built, mask>>
vars == <<layers, last, scanLayer, scanner, args, pc, exc, bounds, it, chunks,
          table, mapq, env, calls, matches, progress, results, prior,
          store, io, direct_metadata, built, mask>>

(***************************************************************************)
(* Bounds of the model                                                     *)
(***************************************************************************)
NumNames == 3        \* layer names in play
MaxDeps == 2         \* longest dependency list of a TranslationLayer
MaxAddr == 5         \* largest maximum_address of a scanned layer
MaxChunkSize == 2    \* largest scanner.chunk_size
MaxOverlap == 3      \* largest scanner.overlap
MaxChunks == 8       \* chunks recorded per scan
MaxLen == 3          \* longest read, longest written value
MaxCount == 11       \* largest number in a held name prefix + str(count)
MaxMask == 64        \* largest maximum_address of a layer asked for its address_mask

AllNames == <<"a", "b", "c", "d", "e", "f">>
Names == {AllNames[i] : i \in 1..NumNames}

\* two DataLayer objects can carry the same name: enough to tell a replaced
\* layer from the one that replaced it
ObjectIds == {1, 2}

Range(s) == {s[i] : i \in DOMAIN s}
Min(x, y) == IF x <= y THEN x ELSE y
Max(x, y) == IF x >= y THEN x ELSE y

\* Optional values: None is the empty sequence, a given value v is <<v>>
None == <<>>
Some(v) == <<v>>

(***************************************************************************)
(* Layer objects                                                           *)
(***************************************************************************)
Ascending(s) == \A i \in 1..(Len(s) - 1) : s[i] < s[i + 1]

\* dependency lists: non-empty lists of distinct names, up to MaxDeps long
DepLists ==
    UNION {{[i \in 1..n |-> AllNames[s[i]]] :
                s \in {t \in [1..n -> 1..NumNames] : Ascending(t)}} : n \in 1..MaxDeps}

DataLayers ==
    {[kind |-> "data", name |-> n, deps |-> <<>>, id |-> i] : n \in Names, i \in ObjectIds}

TranslationLayers ==
    {[kind |-> "translation", name |-> n, deps |-> d, id |-> 1] : n \in Names, d \in DepLists}

LayerObjects == DataLayers \cup TranslationLayers

IsTranslationLayer(layer) == layer.kind = "translation"

\* DataLayerInterface.dependencies returns [], TranslationLayerInterface's is the declared list
Dependencies(layer) == IF IsTranslationLayer(layer) THEN layer.deps ELSE <<>>

(***************************************************************************)
(* Memory.add_layer                                                        *)
(***************************************************************************)
Event(ev, layer) == [ev |-> ev, name |-> layer.name, obj |-> layer]

Put(L, name, layer) == [n \in (DOMAIN L) \cup {name} |-> IF n = name THEN layer ELSE L[n]]

Remove(L, name) == [n \in (DOMAIN L) \ {name} |-> L[n]]

\* a plausible slip: the dependency test is dropped
MissingListUnchecked(L, layer) == <<>>

MissingList(L, layer) ==
    SelectSeq(Dependencies(layer), LAMBDA sublayer : sublayer \notin DOMAIN L)

Raised(L, kind, msg) == [res |-> kind, msg |-> msg, layers |-> L, trace |-> <<>>]

\* a plausible slip: the name test is dropped as well for translation layers
AddLayerOutcomeNoChecks(L, layer) ==
    [res |-> "ok", msg |-> "",
     layers |-> Put(L, layer.name, layer),
     trace |-> <<Event("insert", layer)>>]

AddLayerOutcome(L, layer) ==
    IF IsTranslationLayer(layer) /\ layer.name \in DOMAIN L
    THEN Raised(L, "LayerException", "exists")
    ELSE IF IsTranslationLayer(layer) /\ MissingList(L, layer) # <<>>
    THEN Raised(L, "LayerException", "unmet")
    ELSE [res |-> "ok", msg |-> "",
          layers |-> Put(L, layer.name, layer),
          trace |-> <<Event("insert", layer)>>]

(***************************************************************************)
(* Memory.del_layer                                                        *)
(***************************************************************************)
\* a plausible slip: only the layer being removed is examined
DependListSelfOnly(L, layer, name) ==
    {superlayer \in DOMAIN L : layer = name /\ name \in Range(Dependencies(L[layer]))}

\* the list built at each turn of the loop over self._layers
DependList(L, layer, name) ==
    {superlayer \in DOMAIN L : name \in Range(Dependencies(L[layer]))}

\* a plausible slip: the release hook runs before the dependency test
DelLayerOutcomeDestroyFirst(L, name) ==
    IF name \notin DOMAIN L
    THEN Raised(L, "KeyError", "")
    ELSE IF \E layer \in DOMAIN L : DependList(L, layer, name) # {}
    THEN [res |-> "LayerException", msg |-> "depended", layers |-> L,
          trace |-> <<Event("destroy", L[name])>>]
    ELSE [res |-> "ok", msg |-> "",
          layers |-> Remove(L, name),
          trace |-> <<Event("destroy", L[name]), Event("remove", L[name])>>]

DelLayerOutcome(L, name) ==
    IF \E layer \in DOMAIN L : DependList(L, layer, name) # {}
    THEN Raised(L, "LayerException", "depended")
    ELSE IF name \notin DOMAIN L
    THEN Raised(L, "KeyError", "")
    ELSE [res |-> "ok", msg |-> "",
          layers |-> Remove(L, name),
          trace |-> <<Event("destroy", L[name]), Event("remove", L[name])>>]

(***************************************************************************)
(* Memory.check_cycles: the body is a docstring and a comment              *)
(***************************************************************************)
CheckCyclesOutcome(L) == [res |-> "ok", msg |-> "", layers |-> L, trace |-> <<>>]

(***************************************************************************)
(* Memory: state and actions                                               *)
(***************************************************************************)
EmptyMemory == [n \in {} |-> [kind |-> "data", name |-> "a", deps |-> <<>>, id |-> 1]]

Call(op, name, layer, o, L) ==
    [op |-> op, name |-> name, arg |-> layer,
     res |-> o.res, msg |-> o.msg, pre |-> L, trace |-> o.trace]

NoCall == [op |-> "init", name |-> "", arg |-> None,
           res |-> "ok", msg |-> "", pre |-> EmptyMemory, trace |-> <<>>]

AddLayer(layer) ==
    LET o == AddLayerOutcome(layers, layer) IN
    /\ pc = "idle"
    /\ layers' = o.layers
    /\ last' = Call("add_layer", layer.name, Some(layer), o, layers)
    /\ UNCHANGED <<scanvars, pipevars, rwvars, metavars>>

DelLayer(name) ==
    LET o == DelLayerOutcome(layers, name) IN
    /\ pc = "idle"
    /\ layers' = o.layers
    /\ last' = Call("del_layer", name, None, o, layers)
    /\ UNCHANGED <<scanvars, pipevars, rwvars, metavars>>

CheckCycles ==
    LET o == CheckCyclesOutcome(layers) IN
    /\ pc = "idle"
    /\ layers' = o.layers
    /\ last' = Call("check_cycles", "", None, o, layers)
    /\ UNCHANGED <<scanvars, pipevars, rwvars, metavars>>

(***************************************************************************)
(* DataLayerInterface.scan: resolution of the bounds                       *)
(***************************************************************************)
\* min_address after "if min_address is None: min_address = self.minimum_address"
GivenMin(layer, a) == IF a.min_address = None THEN layer.minimum_address ELSE a.min_address[1]

\* max_address after "if max_address is None: max_address = self.maximum_address"
GivenMax(layer, a) == IF a.max_address = None THEN layer.maximum_address ELSE a.max_address[1]

\* the two tests of scan that raise ValueError
BoundsRejected(layer, a) ==
    \/ GivenMin(layer, a) > layer.maximum_address
    \/ GivenMax(layer, a) < layer.minimum_address

ResolvedBounds(layer, a) ==
    [min_address |-> Max(layer.minimum_address, GivenMin(layer, a)),
     max_address |-> Min(layer.maximum_address, GivenMax(layer, a))]

(***************************************************************************)
(* DataLayerInterface._scan_iterator                                       *)
(***************************************************************************)
\* a plausible slip: the chunk is not cut to what is left of the range
ChunkSizeIgnoresLength(length, s) == s.chunk_size + s.overlap

\* chunk_size = min(length, scanner.chunk_size + scanner.overlap)
ChunkSize(length, s) == Min(length, s.chunk_size + s.overlap)

\* a plausible slip: the overlap is added to the step instead of taken off it
AdvanceAddsOverlap(chunk_size, s) ==
    IF chunk_size > s.chunk_size THEN chunk_size + s.overlap ELSE chunk_size

\* the step after a yield: "if chunk_size > scanner.chunk_size: chunk_size -= scanner.overlap"
Advance(chunk_size, s) ==
    IF chunk_size > s.chunk_size THEN chunk_size - s.overlap ELSE chunk_size

\* the value yielded: ([(layer_name, mapped_offset, chunk_size)], offset + chunk_size)
IteratorValue(layer, i, chunk_size) ==
    [spans |-> <<[layer_name |-> layer.name,
                  address |-> i.mapped_offset,
                  chunk_size |-> chunk_size]>>,
     chunk_end |-> i.offset + chunk_size]

IdleIterator == [offset |-> 0, mapped_offset |-> 0, length |-> 0, chunk_size |-> 0]
IdleBounds == [min_address |-> 0, max_address |-> 0]

\* scan up to the point where the iterator is bound to the resolved bounds
ScanCall ==
    /\ pc = "call"
    /\ IF BoundsRejected(scanLayer, args)
       THEN /\ pc' = "raised"
            /\ exc' = "ValueError"
            /\ UNCHANGED bounds
       ELSE /\ pc' = "iter"
            /\ bounds' = ResolvedBounds(scanLayer, args)
            /\ UNCHANGED exc
    /\ UNCHANGED <<scanLayer, scanner, args, it, chunks, memvars, pipevars, rwvars, metavars>>

\* first line of _scan_iterator
IterStart ==
    /\ pc = "iter"
    /\ table = None
    /\ it' = [offset |-> bounds.min_address,
              mapped_offset |-> bounds.min_address,
              length |-> bounds.max_address - bounds.min_address,
              chunk_size |-> 0]
    /\ pc' = "loop"
    /\ UNCHANGED <<scanLayer, scanner, args, exc, bounds, chunks, memvars, pipevars, rwvars, metavars>>

\* "while length > 0" holds: compute the chunk and yield it
IterYield ==
    /\ pc = "loop"
    /\ ~env.split
    /\ it.length > 0
    /\ Len(chunks) < MaxChunks
    /\ LET chunk_size == ChunkSize(it.length, scanner) IN
       /\ it' = [it EXCEPT !.chunk_size = chunk_size]
       /\ chunks' = Append(chunks, IteratorValue(scanLayer, it, chunk_size))
    /\ pc' = "yielded"
    /\ UNCHANGED <<scanLayer, scanner, args, exc, bounds, memvars, pipevars, rwvars, metavars>>

\* a scan_iterator passed by the caller: it walks as the default one does and
\* hands over each chunk of two bytes or more as two spans, its first byte
\* and the rest
SplitValue(layer, i, chunk_size) ==
    [spans |-> IF chunk_size >= 2
               THEN <<[layer_name |-> layer.name, address |-> i.offset, chunk_size |-> 1],
                      [layer_name |-> layer.name, address |-> i.offset + 1,
                       chunk_size |-> chunk_size - 1]>>
               ELSE <<[layer_name |-> layer.name, address |-> i.offset,
                       chunk_size |-> chunk_size]>>,
     chunk_end |-> i.offset + chunk_size]

CustomIterYield ==
    /\ pc = "loop"
    /\ env.split
    /\ it.length > 0
    /\ Len(chunks) < MaxChunks
    /\ LET chunk_size == ChunkSize(it.length, scanner) IN
       /\ it' = [it EXCEPT !.chunk_size = chunk_size]
       /\ chunks' = Append(chunks, SplitValue(scanLayer, it, chunk_size))
    /\ pc' = "yielded"
    /\ UNCHANGED <<scanLayer, scanner, args, exc, bounds, memvars, pipevars, rwvars, metavars>>

\* the generator is resumed: move on by the step
IterAdvance ==
    /\ pc = "resume"
    /\ table = None
    /\ LET chunk_size == Advance(it.chunk_size, scanner) IN
       it' = [offset |-> it.offset + chunk_size,
              mapped_offset |-> it.mapped_offset + chunk_size,
              length |-> it.length - chunk_size,
              chunk_size |-> chunk_size]
    /\ pc' = "loop"
    /\ UNCHANGED <<scanLayer, scanner, args, exc, bounds, chunks, memvars, pipevars, rwvars, metavars>>

\* "while length > 0" fails: the iterator ends; a sequential scan ends with it,
\* a parallel scan has handed every chunk to the pool
IterStop ==
    /\ pc = "loop"
    /\ it.length <= 0
    /\ pc' = IF env.parallel THEN "pool" ELSE "done"
    /\ UNCHANGED <<scanLayer, scanner, args, exc, bounds, it, chunks, memvars, pipevars, rwvars, metavars>>

(***************************************************************************)
(* The underlying layers and the scanner                                   *)
(***************************************************************************)
SetMin(S) == CHOOSE x \in S : \A y \in S : x <= y

\* nothing has been written
NoStore == [c \in {} |-> 0]

\* the byte an underlying layer holds at an address before any write: a
\* pattern that names its place
Content(layer_name, address) == <<layer_name, address>>

StoredByte(st, layer_name, address) ==
    IF <<layer_name, address>> \in DOMAIN st
    THEN st[<<layer_name, address>>]
    ELSE Content(layer_name, address)

\* read(address, length) of an underlying layer raises InvalidAddressException
ReadRaises(bad, layer_name, address, length) ==
    \E x \in address..(address + length - 1) : <<layer_name, x>> \in bad

\* read(address, length) of an underlying layer, all of it readable
LayerRead(st, layer_name, address, length) ==
    [i \in 1..length |-> StoredByte(st, layer_name, address + i - 1)]

\* a scanner that is a function of (data, data_offset): it reports the offset
\* and the value of every byte that does not lie past chunk_size
ScannerMatches(s, data, data_offset) ==
    [j \in 1..Min(Len(data), s.chunk_size) |->
        [offset |-> data_offset + j - 1, byte |-> data[j]]]

(***************************************************************************)
(* DataLayerInterface._scan_chunk                                          *)
(***************************************************************************)
\* a plausible slip: the first span that cannot be read ends the chunk
RECURSIVE ReadSpansStopAtFailure(_, _, _)
ReadSpansStopAtFailure(st, bad, spans) ==
    IF spans = <<>> THEN <<>>
    ELSE LET sp == Head(spans) IN
         IF ReadRaises(bad, sp.layer_name, sp.address, sp.chunk_size)
         THEN <<>>
         ELSE LayerRead(st, sp.layer_name, sp.address, sp.chunk_size)
                  \o ReadSpansStopAtFailure(st, bad, Tail(spans))

\* data after the loop over data_to_scan: a span whose read raises
\* InvalidAddressException adds nothing
RECURSIVE ReadSpans(_, _, _)
ReadSpans(st, bad, spans) ==
    IF spans = <<>> THEN <<>>
    ELSE LET sp == Head(spans) IN
         (IF ReadRaises(bad, sp.layer_name, sp.address, sp.chunk_size)
          THEN <<>>
          ELSE LayerRead(st, sp.layer_name, sp.address, sp.chunk_size))
             \o ReadSpans(st, bad, Tail(spans))

\* second argument of the scanner: chunk_end - len(data)
DataOffset(value, data) == value.chunk_end - Len(data)

ScannerCall(value, data, outcome) ==
    [data |-> data, data_offset |-> DataOffset(value, data),
     chunk_end |-> value.chunk_end, outcome |-> outcome]

(***************************************************************************)
(* DataLayerInterface.scan, sequential mode: the body of the for loop      *)
(***************************************************************************)
\* scan_chunk(value) returns and its matches are yielded
SeqScanChunk ==
    /\ pc = "yielded"
    /\ ~env.parallel
    /\ LET value == chunks[Len(chunks)]
           data == ReadSpans(store, env.bad, value.spans)
       IN /\ calls' = Append(calls, ScannerCall(value, data, "returned"))
          /\ progress' = value.chunk_end
          /\ matches' = matches \o ScannerMatches(scanner, data, DataOffset(value, data))
    /\ pc' = "resume"
    /\ UNCHANGED <<scanLayer, scanner, args, exc, bounds, it, chunks,
                   table, mapq, env, results, prior, memvars, rwvars, metavars>>

\* a plausible slip: the try statement sits inside the for loop
SeqScannerRaisesContinues ==
    /\ pc = "yielded"
    /\ ~env.parallel
    /\ LET value == chunks[Len(chunks)]
           data == ReadSpans(store, env.bad, value.spans)
       IN /\ calls' = Append(calls, ScannerCall(value, data, "raised"))
          /\ progress' = value.chunk_end
    /\ pc' = "resume"
    /\ UNCHANGED <<scanLayer, scanner, args, exc, bounds, it, chunks, matches,
                   table, mapq, env, results, prior, memvars, rwvars, metavars>>

\* the scanner raises inside scan_chunk(value): "except Exception" around the
\* loop logs it and the generator ends
SeqScannerRaises ==
    /\ pc = "yielded"
    /\ ~env.parallel
    /\ LET value == chunks[Len(chunks)]
           data == ReadSpans(store, env.bad, value.spans)
       IN /\ calls' = Append(calls, ScannerCall(value, data, "raised"))
          /\ progress' = value.chunk_end
    /\ pc' = "caught"
    /\ UNCHANGED <<scanLayer, scanner, args, exc, bounds, it, chunks, matches,
                   table, mapq, env, results, prior, memvars, rwvars, metavars>>

(***************************************************************************)
(* DataLayerInterface.scan, parallel mode: pool.map_async over the chunks  *)
(***************************************************************************)
\* map_async takes the next chunk off the iterator; no chunk is scanned
\* before the iterator has ended
ParTake ==
    /\ pc = "yielded"
    /\ env.parallel
    /\ pc' = "resume"
    /\ UNCHANGED <<scanLayer, scanner, args, exc, bounds, it, chunks, memvars,
                   pipevars, rwvars, metavars>>

\* a worker runs _scan_chunk on chunk i up to the call of the scanner: the
\* spans are read and the shared progress value is set
WorkerStart(i) ==
    /\ pc = "pool"
    /\ i \in DOMAIN chunks
    /\ i \notin DOMAIN results
    /\ results' = Put(results, i,
                      [data |-> ReadSpans(store, env.bad, chunks[i].spans),
                       returned |-> FALSE])
    /\ progress' = chunks[i].chunk_end
    /\ UNCHANGED <<scanLayer, scanner, args, pc, exc, bounds, it, chunks,
                   table, mapq, env, calls, matches, prior,
                   memvars, rwvars, metavars>>

\* the scanner returns in the worker of chunk i
WorkerFinish(i) ==
    /\ pc = "pool"
    /\ i \in DOMAIN results
    /\ ~results[i].returned
    /\ results' = [results EXCEPT ![i].returned = TRUE]
    /\ calls' = Append(calls, ScannerCall(chunks[i], results[i].data, "returned"))
    /\ UNCHANGED <<scanLayer, scanner, args, pc, exc, bounds, it, chunks,
                   table, mapq, env, matches, progress, prior,
                   memvars, rwvars, metavars>>

\* result.get(): the lists of the chunks in the order of the chunks
RECURSIVE Collected(_, _, _)
Collected(s, cs, res) ==
    IF cs = <<>> THEN <<>>
    ELSE Collected(s, SubSeq(cs, 1, Len(cs) - 1), res)
             \o ScannerMatches(s, res[Len(cs)].data,
                               DataOffset(cs[Len(cs)], res[Len(cs)].data))

\* a plausible slip: the results are taken without waiting for result.ready()
ParCollectNoWait ==
    /\ pc = "pool"
    /\ LET ready == {i \in DOMAIN results : results[i].returned}
           n == IF ready = {} THEN 0
                ELSE CHOOSE k \in ready : \A j \in ready : j <= k
       IN /\ \A i \in 1..n : i \in ready
          /\ matches' = Collected(scanner, SubSeq(chunks, 1, n), results)
    /\ pc' = "done"
    /\ UNCHANGED <<scanLayer, scanner, args, exc, bounds, it, chunks,
                   table, mapq, env, calls, progress, results, prior,
                   memvars, rwvars, metavars>>

\* result.ready(): every chunk has been scanned; the matches are yielded
ParCollect ==
    /\ pc = "pool"
    /\ \A i \in DOMAIN chunks : i \in DOMAIN results /\ results[i].returned
    /\ matches' = Collected(scanner, chunks, results)
    /\ pc' = "done"
    /\ UNCHANGED <<scanLayer, scanner, args, exc, bounds, it, chunks,
                   table, mapq, env, calls, progress, results, prior,
                   memvars, rwvars, metavars>>

\* the consumer keeps the matches of a finished sequential scan and scans the
\* same layer and bounds again with multithreaded scanning
Rescan ==
    /\ pc = "done"
    /\ ~env.parallel
    /\ prior' = Some(matches)
    /\ env' = [env EXCEPT !.parallel = TRUE]
    /\ pc' = "call"
    /\ bounds' = IdleBounds
    /\ it' = IdleIterator
    /\ chunks' = <<>>
    /\ calls' = <<>>
    /\ matches' = <<>>
    /\ progress' = 0
    /\ results' = <<>>
    /\ UNCHANGED <<scanLayer, scanner, args, exc, table, mapq,
                   memvars, rwvars, metavars>>

(***************************************************************************)
(* TranslationLayerInterface.mapping: abstract in the interface, taken     *)
(* from its contract. A translation table is a list of tuples sorted by    *)
(* offset that do not overlap.                                             *)
(***************************************************************************)
Mapped(tbl, x) ==
    \E i \in DOMAIN tbl : tbl[i].offset <= x /\ x < tbl[i].offset + tbl[i].length

\* the part of a tuple inside [offset, offset + length)
Clip(t, offset, length) ==
    LET lo == Max(t.offset, offset)
        hi == Min(t.offset + t.length, offset + length)
    IN [offset |-> lo, mapped_offset |-> t.mapped_offset + (lo - t.offset),
        length |-> hi - lo, layer |-> t.layer]

Mapping(tbl, offset, length, ignore_errors) ==
    LET unmapped == {x \in offset..(offset + length - 1) : ~Mapped(tbl, x)}
        clipped == [i \in DOMAIN tbl |-> Clip(tbl[i], offset, length)]
    IN IF ~ignore_errors /\ unmapped # {}
       THEN [raised |-> Some(SetMin(unmapped)), tuples |-> <<>>]
       ELSE [raised |-> None, tuples |-> SelectSeq(clipped, LAMBDA t : t.length > 0)]

(***************************************************************************)
(* TranslationLayerInterface._scan_iterator                                *)
(***************************************************************************)
TIteratorValue(layer_name, i, chunk_size) ==
    [spans |-> <<[layer_name |-> layer_name,
                  address |-> i.mapped_offset,
                  chunk_size |-> chunk_size]>>,
     chunk_end |-> i.offset + chunk_size]

\* self.mapping(min_address, max_address - min_address, ignore_errors = True)
TIterStart ==
    /\ pc = "iter"
    /\ table # None
    /\ mapq' = Mapping(table[1], bounds.min_address,
                       bounds.max_address - bounds.min_address, TRUE).tuples
    /\ pc' = "tfor"
    /\ UNCHANGED <<scanLayer, scanner, args, exc, bounds, it, chunks,
                   table, env, calls, matches, progress, results, prior,
                   memvars, rwvars, metavars>>

\* the for loop takes the next tuple; it stays at the head of mapq while it is cut
TIterNextSpan ==
    /\ pc = "tfor"
    /\ mapq # <<>>
    /\ it' = [offset |-> Head(mapq).offset,
              mapped_offset |-> Head(mapq).mapped_offset,
              length |-> Head(mapq).length,
              chunk_size |-> it.chunk_size]
    /\ pc' = "twhile"
    /\ UNCHANGED <<scanLayer, scanner, args, exc, bounds, chunks, memvars,
                   pipevars, rwvars, metavars>>

TIterYield ==
    /\ pc = "twhile"
    /\ it.length > 0
    /\ Len(chunks) < MaxChunks
    /\ LET chunk_size == ChunkSize(it.length, scanner) IN
       /\ it' = [it EXCEPT !.chunk_size = chunk_size]
       /\ chunks' = Append(chunks, TIteratorValue(Head(mapq).layer, it, chunk_size))
    /\ pc' = "yielded"
    /\ UNCHANGED <<scanLayer, scanner, args, exc, bounds, memvars,
                   pipevars, rwvars, metavars>>

TIterAdvance ==
    /\ pc = "resume"
    /\ table # None
    /\ LET chunk_size == Advance(it.chunk_size, scanner) IN
       it' = [offset |-> it.offset + chunk_size,
              mapped_offset |-> it.mapped_offset + chunk_size,
              length |-> it.length - chunk_size,
              chunk_size |-> chunk_size]
    /\ pc' = "twhile"
    /\ UNCHANGED <<scanLayer, scanner, args, exc, bounds, chunks, memvars,
                   pipevars, rwvars, metavars>>

\* "while length > 0" fails: back to the for loop
TIterSpanDone ==
    /\ pc = "twhile"
    /\ it.length <= 0
    /\ mapq' = Tail(mapq)
    /\ pc' = "tfor"
    /\ UNCHANGED <<scanLayer, scanner, args, exc, bounds, it, chunks,
                   table, env, calls, matches, progress, results, prior,
                   memvars, rwvars, metavars>>

\* the mapping is exhausted
TIterStop ==
    /\ pc = "tfor"
    /\ mapq = <<>>
    /\ pc' = IF env.parallel THEN "pool" ELSE "done"
    /\ UNCHANGED <<scanLayer, scanner, args, exc, bounds, it, chunks, memvars,
                   pipevars, rwvars, metavars>>

(***************************************************************************)
(* TranslationLayerInterface.read and write, through Memory.read and       *)
(* Memory.write onto the underlying DataLayers, which hold every address   *)
(* they are asked for                                                      *)
(***************************************************************************)
\* b"\x00"
ZeroByte == <<"zero", 0>>

Zeros(n) == [i \in 1..n |-> ZeroByte]

\* a plausible slip: nothing is put in the place of a gap
GapFillNone(offset, current_offset) == <<>>

\* b"\x00" * (offset - current_offset)
GapFill(offset, current_offset) == Zeros(offset - current_offset)

\* the for loop of read over the tuples of the mapping
RECURSIVE ReadWalk(_, _, _, _, _)
ReadWalk(tuples, current_offset, output, st, pad) ==
    IF tuples = <<>>
    THEN [res |-> "ok", addr |-> 0, out |-> output]
    ELSE LET t == Head(tuples) IN
         IF ~pad /\ t.offset > current_offset
         THEN [res |-> "InvalidAddressException", addr |-> current_offset, out |-> <<>>]
         ELSE IF t.offset < current_offset
         THEN [res |-> "LayerException", addr |-> 0, out |-> <<>>]
         ELSE ReadWalk(Tail(tuples),
                       t.offset + t.length,
                       output \o (IF t.offset > current_offset
                                  THEN GapFill(t.offset, current_offset)
                                  ELSE <<>>)
                              \o LayerRead(st, t.layer, t.mapped_offset, t.length),
                       st, pad)

TRead(tbl, st, offset, length, pad) ==
    LET m == Mapping(tbl, offset, length, pad) IN
    IF m.raised # None
    THEN [res |-> "InvalidAddressException", addr |-> m.raised[1], out |-> <<>>]
    ELSE LET w == ReadWalk(m.tuples, offset, <<>>, st, pad) IN
         IF w.res # "ok" THEN w
         ELSE [w EXCEPT !.out = w.out \o Zeros(length - Len(w.out))]

\* write(address, data) of an underlying DataLayer
WriteCells(st, layer_name, address, data) ==
    LET cells == {<<layer_name, address + i - 1>> : i \in 1..Len(data)} IN
    [c \in (DOMAIN st) \cup cells |->
        IF c \in cells THEN data[c[2] - address + 1] ELSE st[c]]

\* the for loop of write over the tuples of the mapping
RECURSIVE WriteWalk(_, _, _, _)
WriteWalk(tuples, current_offset, value, st) ==
    IF tuples = <<>>
    THEN [res |-> "ok", addr |-> 0, store |-> st]
    ELSE LET t == Head(tuples) IN
         IF t.offset > current_offset
         THEN [res |-> "InvalidAddressException", addr |-> current_offset, store |-> st]
         ELSE IF t.offset < current_offset
         THEN [res |-> "LayerException", addr |-> 0, store |-> st]
         ELSE WriteWalk(Tail(tuples), current_offset + t.length, value,
                        WriteCells(st, t.layer, t.mapped_offset, value))

TWrite(tbl, st, offset, value) ==
    LET m == Mapping(tbl, offset, Len(value), FALSE) IN
    IF m.raised # None
    THEN [res |-> "InvalidAddressException", addr |-> m.raised[1], store |-> st]
    ELSE WriteWalk(m.tuples, offset, value, st)

\* the bytes handed to write: byte i of the value is recognisable as such
Value(n) == [i \in 1..n |-> <<"value", i>>]

NoIO == [op |-> "none", offset |-> 0, length |-> 0, pad |-> FALSE, value |-> <<>>,
         res |-> "ok", addr |-> 0, out |-> <<>>, pre |-> NoStore]

Read(offset, length, pad) ==
    /\ io.op \in {"none", "write"}
    /\ LET r == TRead(table[1], store, offset, length, pad) IN
       io' = [op |-> "read", offset |-> offset, length |-> length, pad |-> pad,
              value |-> <<>>, res |-> r.res, addr |-> r.addr, out |-> r.out,
              pre |-> store]
    /\ UNCHANGED <<store, memvars, scanvars, pipevars, metavars>>

Write(offset, value) ==
    /\ io.op = "none"
    /\ LET r == TWrite(table[1], store, offset, value) IN
       /\ store' = r.store
       /\ io' = [op |-> "write", offset |-> offset, length |-> Len(value),
                 pad |-> FALSE, value |-> value, res |-> r.res, addr |-> r.addr,
                 out |-> <<>>, pre |-> store]
    /\ UNCHANGED <<memvars, scanvars, pipevars, metavars>>

(***************************************************************************)
(* Metadata: DataLayerInterface._direct_metadata, __init__ and metadata    *)
(***************************************************************************)
\* the second map of the class attribute _direct_metadata
MetadataDefaults == [k \in {"architecture", "os"} |-> "Unknown"]

MetaKeys == {"architecture", "os", "page_map_offset"}

\* the metadata arguments of the constructors: None or a dict
MetadataArgs ==
    {None,
     Some([k \in {"os"} |-> "windows"]),
     Some([k \in {"os"} |-> "linux"]),
     Some([k \in {"page_map_offset"} |-> "0x1000"])}

\* ChainMap.update writes into the first map of the chain
Update(first, metadata) ==
    [k \in (DOMAIN first) \cup (DOMAIN metadata) |->
        IF k \in DOMAIN metadata THEN metadata[k] ELSE first[k]]

\* __init__ of a layer; the layer then joins the Memory of the context.
\* self._direct_metadata is the attribute of the class: one object for all layers
Construct(name, deps, metadata) ==
    /\ name \notin DOMAIN built
    /\ \A i \in DOMAIN deps : deps[i] \in DOMAIN built
    /\ direct_metadata' = IF metadata # None /\ DOMAIN metadata[1] # {}
                          THEN Update(direct_metadata, metadata[1])
                          ELSE direct_metadata
    /\ built' = Put(built, name, [deps |-> deps, metadata |-> metadata])
    /\ UNCHANGED <<memvars, scanvars, pipevars, rwvars, mask>>

\* layer.metadata[key] as ChainMap({}, self._direct_metadata, *maps) finds it:
\* Some(value), or None for a KeyError
RECURSIVE FirstDefined(_, _, _, _)
RECURSIVE Metadata(_, _, _, _)
Metadata(b, first, name, key) ==
    IF key \in DOMAIN first THEN Some(first[key])
    ELSE IF key \in DOMAIN MetadataDefaults THEN Some(MetadataDefaults[key])
    ELSE FirstDefined(b, first, b[name].deps, key)

FirstDefined(b, first, deps, key) ==
    IF deps = <<>> THEN None
    ELSE IF Metadata(b, first, Head(deps), key) # None
    THEN Metadata(b, first, Head(deps), key)
    ELSE FirstDefined(b, first, Tail(deps), key)

(***************************************************************************)
(* Memory.free_layer_name                                                  *)
(***************************************************************************)
Digits == <<"0", "1", "2", "3", "4", "5", "6", "7", "8", "9">>

\* str(count) for count >= 0
RECURSIVE Str(_)
Str(n) == IF n < 10 THEN Digits[n + 1] ELSE Str(n \div 10) \o Digits[(n % 10) + 1]

\* the while loop: the first count from the given one whose name is not held
RECURSIVE FreeCount(_, _, _)
FreeCount(L, prefix, count) ==
    IF (prefix \o Str(count)) \in DOMAIN L
    THEN FreeCount(L, prefix, count + 1)
    ELSE count

\* a plausible slip: the count starts at 0
FreeLayerNameOutcomeFromZero(L, prefix) ==
    [res |-> "ok", msg |-> prefix \o Str(FreeCount(L, prefix, 0)),
     layers |-> L, trace |-> <<>>]

\* the returned name is carried in msg
FreeLayerNameOutcome(L, prefix) ==
    [res |-> "ok", msg |-> prefix \o Str(FreeCount(L, prefix, 1)),
     layers |-> L, trace |-> <<>>]

FreeLayerName(prefix) ==
    LET o == FreeLayerNameOutcome(layers, prefix) IN
    /\ pc = "idle"
    /\ layers' = o.layers
    /\ last' = Call("free_layer_name", prefix, None, o, layers)
    /\ UNCHANGED <<scanvars, pipevars, rwvars, metavars>>

\* prefixes asked for, one being another followed by a digit
Prefixes == {"layer", "layer1"}

\* DataLayers named as free_layer_name names them
NumberedLayers ==
    {[kind |-> "data", name |-> "layer" \o Str(k), deps |-> <<>>, id |-> 1] :
        k \in 1..MaxCount}

(***************************************************************************)
(* DataLayerInterface.address_mask                                         *)
(***************************************************************************)
\* int(math.ceil(math.log2(n))) for n >= 1: the least k with 2^k >= n
CeilLog2(n) == CHOOSE k \in 0..n : 2^k >= n /\ (k = 0 \/ 2^(k - 1) < n)

\* (1 << ceil(log2(maximum_address))) - 1
AddressMaskOf(layer) == 2^CeilLog2(layer.maximum_address) - 1

AddressMask ==
    /\ mask = None
    /\ mask' = Some(AddressMaskOf(scanLayer))
    /\ UNCHANGED <<memvars, scanvars, pipevars, rwvars, direct_metadata, built>>

(***************************************************************************)
(* Specifications                                                          *)
(***************************************************************************)
ScanLayers ==
    {[name |-> "a", minimum_address |-> lo, maximum_address |-> hi] :
        lo \in 0..1, hi \in 0..MaxAddr}

Scanners ==
    {[chunk_size |-> c, overlap |-> o] : c \in 1..MaxChunkSize, o \in 0..MaxOverlap}

ArgValues == {None} \cup {Some(v) : v \in (0 - 1)..(MaxAddr + 1)}

ScanArgs == {[min_address |-> lo, max_address |-> hi] : lo \in ArgValues, hi \in ArgValues}

NoScan ==
    /\ scanLayer = [name |-> "a", minimum_address |-> 0, maximum_address |-> 0]
    /\ scanner = [chunk_size |-> 1, overlap |-> 0]
    /\ args = [min_address |-> None, max_address |-> None]
    /\ pc = "idle"
    /\ exc = ""
    /\ bounds = IdleBounds
    /\ it = IdleIterator
    /\ chunks = <<>>

\* a sequential scan of a fully readable DataLayer that has not started
SequentialReadable == [parallel |-> FALSE, bad |-> {}, split |-> FALSE]

NoPipe ==
    /\ table = None
    /\ mapq = <<>>
    /\ env = SequentialReadable
    /\ calls = <<>>
    /\ matches = <<>>
    /\ progress = 0
    /\ results = <<>>
    /\ prior = None

NoRW ==
    /\ store = NoStore
    /\ io = NoIO

NoMeta ==
    /\ direct_metadata = NoStore
    /\ built = NoStore
    /\ mask = None

\* Memory.__init__
Init ==
    /\ layers = EmptyMemory
    /\ last = NoCall
    /\ NoScan
    /\ NoPipe
    /\ NoRW
    /\ NoMeta

\* a Memory whose _layers was filled in directly, each layer stored under its own name
ExternalMemories ==
    UNION {{m \in [S -> LayerObjects] : \A n \in S : m[n].name = n} : S \in SUBSET Names}

InitExt ==
    /\ layers \in ExternalMemories
    /\ last = [NoCall EXCEPT !.pre = layers]
    /\ NoScan
    /\ NoPipe
    /\ NoRW
    /\ NoMeta

InitScan ==
    /\ layers = EmptyMemory
    /\ last = NoCall
    /\ scanLayer \in {l \in ScanLayers : l.minimum_address <= l.maximum_address}
    /\ scanner \in Scanners
    /\ args \in ScanArgs
    /\ pc = "call"
    /\ exc = ""
    /\ bounds = IdleBounds
    /\ it = IdleIterator
    /\ chunks = <<>>
    /\ NoPipe
    /\ NoRW
    /\ NoMeta

\* translation tables over the addresses below MaxAddr: each address is
\* unmapped ("") or mapped into layer "a" or "b"; a run of addresses mapped
\* into the same layer is one tuple, and each layer is filled from 0 upwards
TableAddresses == 0..(MaxAddr - 1)

Packed(f, x) == Cardinality({y \in TableAddresses : y < x /\ f[y] = f[x]})

RunEnd(f, x) == SetMin({y \in (x + 1)..MaxAddr : y = MaxAddr \/ f[y] # f[x]})

RECURSIVE RunsFrom(_, _)
RunsFrom(f, x) ==
    IF x >= MaxAddr THEN <<>>
    ELSE IF f[x] = "" THEN RunsFrom(f, x + 1)
    ELSE <<[offset |-> x, mapped_offset |-> Packed(f, x),
            length |-> RunEnd(f, x) - x, layer |-> f[x]]>> \o RunsFrom(f, RunEnd(f, x))

Tables == {RunsFrom(f, 0) : f \in [TableAddresses -> {"", "a", "b"}]}

InitTScan ==
    /\ layers = EmptyMemory
    /\ last = NoCall
    /\ scanLayer = [name |-> "t", minimum_address |-> 0, maximum_address |-> MaxAddr]
    /\ scanner \in Scanners
    /\ args \in {[min_address |-> None, max_address |-> hi] :
                    hi \in {None, Some(MaxAddr - 2)}}
    /\ pc = "call"
    /\ exc = ""
    /\ bounds = IdleBounds
    /\ it = IdleIterator
    /\ chunks = <<>>
    /\ table \in {Some(t) : t \in Tables}
    /\ mapq = <<>>
    /\ env = SequentialReadable
    /\ calls = <<>>
    /\ matches = <<>>
    /\ progress = 0
    /\ results = <<>>
    /\ prior = None
    /\ NoRW
    /\ NoMeta

\* a DataLayer over [0, MaxAddr] some of whose bytes cannot be read, scanned
\* whole with the default iterator or with the caller's
GapSets == SUBSET {<<"a", x>> : x \in 0..(MaxAddr - 1)}

InitGaps ==
    /\ layers = EmptyMemory
    /\ last = NoCall
    /\ scanLayer = [name |-> "a", minimum_address |-> 0, maximum_address |-> MaxAddr]
    /\ scanner \in Scanners
    /\ args = [min_address |-> None, max_address |-> None]
    /\ pc = "call"
    /\ exc = ""
    /\ bounds = IdleBounds
    /\ it = IdleIterator
    /\ chunks = <<>>
    /\ table = None
    /\ mapq = <<>>
    /\ env \in {[parallel |-> FALSE, bad |-> b, split |-> sp] :
                   b \in GapSets, sp \in BOOLEAN}
    /\ calls = <<>>
    /\ matches = <<>>
    /\ progress = 0
    /\ results = <<>>
    /\ prior = None
    /\ NoRW
    /\ NoMeta

\* a TranslationLayer over underlying layers nothing has been written to
InitRW ==
    /\ layers = EmptyMemory
    /\ last = NoCall
    /\ NoScan
    /\ table \in {Some(t) : t \in Tables}
    /\ mapq = <<>>
    /\ env = SequentialReadable
    /\ calls = <<>>
    /\ matches = <<>>
    /\ progress = 0
    /\ results = <<>>
    /\ prior = None
    /\ NoRW
    /\ NoMeta

\* no layer has been constructed
InitMeta ==
    /\ layers = EmptyMemory
    /\ last = NoCall
    /\ NoScan
    /\ NoPipe
    /\ NoRW
    /\ NoMeta

\* a DataLayer over [0, MaxAddr] scanned whole, first sequentially
InitPar ==
    /\ layers = EmptyMemory
    /\ last = NoCall
    /\ scanLayer = [name |-> "a", minimum_address |-> 0, maximum_address |-> MaxAddr]
    /\ scanner \in Scanners
    /\ args = [min_address |-> None, max_address |-> None]
    /\ pc = "call"
    /\ exc = ""
    /\ bounds = IdleBounds
    /\ it = IdleIterator
    /\ chunks = <<>>
    /\ table = None
    /\ mapq = <<>>
    /\ env \in {[parallel |-> FALSE, bad |-> b, split |-> FALSE] :
                   b \in {{}, {<<"a", 1>>}}}
    /\ calls = <<>>
    /\ matches = <<>>
    /\ progress = 0
    /\ results = <<>>
    /\ prior = None
    /\ NoRW
    /\ NoMeta

\* a layer with maximum_address >= 1 that has not been asked for its mask
InitMask ==
    /\ layers = EmptyMemory
    /\ last = NoCall
    /\ scanLayer \in {[name |-> "a", minimum_address |-> lo, maximum_address |-> hi] :
                         lo \in 0..1, hi \in 1..MaxMask}
    /\ scanner = [chunk_size |-> 1, overlap |-> 0]
    /\ args = [min_address |-> None, max_address |-> None]
    /\ pc = "idle"
    /\ exc = ""
    /\ bounds = IdleBounds
    /\ it = IdleIterator
    /\ chunks = <<>>
    /\ NoPipe
    /\ NoRW
    /\ NoMeta

Next ==
    \/ \E layer \in LayerObjects : AddLayer(layer)
    \/ \E name \in Names : DelLayer(name)
    \/ CheckCycles

NextScan ==
    \/ ScanCall
    \/ IterStart
    \/ IterYield
    \/ SeqScanChunk
    \/ SeqScannerRaises
    \/ IterAdvance
    \/ IterStop

NextGaps ==
    \/ ScanCall
    \/ IterStart
    \/ IterYield
    \/ CustomIterYield
    \/ SeqScanChunk
    \/ IterAdvance
    \/ IterStop

NextRW ==
    \/ \E offset \in TableAddresses : \E length \in 0..MaxLen : \E pad \in BOOLEAN :
          Read(offset, length, pad)
    \/ \E offset \in TableAddresses : \E n \in 1..MaxLen :
          Write(offset, Value(n))

NextMeta ==
    \E name \in Names : \E deps \in {<<>>} \cup DepLists : \E metadata \in MetadataArgs :
        Construct(name, deps, metadata)

NextFree ==
    \/ \E layer \in NumberedLayers : AddLayer(layer)
    \/ \E layer \in NumberedLayers : DelLayer(layer.name)
    \/ \E prefix \in Prefixes : FreeLayerName(prefix)

NextPar ==
    \/ ScanCall
    \/ IterStart
    \/ IterYield
    \/ SeqScanChunk
    \/ ParTake
    \/ IterAdvance
    \/ IterStop
    \/ Rescan
    \/ \E i \in 1..MaxChunks : WorkerStart(i)
    \/ \E i \in 1..MaxChunks : WorkerFinish(i)
    \/ ParCollect

NextMask == AddressMask

NextTScan ==
    \/ ScanCall
    \/ TIterStart
    \/ TIterNextSpan
    \/ TIterYield
    \/ SeqScanChunk
    \/ SeqScannerRaises
    \/ TIterAdvance
    \/ TIterSpanDone
    \/ TIterStop

Spec == Init /\ [][Next]_vars

SpecExt == InitExt /\ [][Next]_vars

SpecScan == InitScan /\ [][NextScan]_vars

SpecGaps == InitGaps /\ [][NextGaps]_vars

SpecRW == InitRW /\ [][NextRW]_vars

SpecMeta == InitMeta /\ [][NextMeta]_vars

SpecFree == Init /\ [][NextFree]_vars

SpecPar == InitPar /\ [][NextPar]_vars

SpecMask == InitMask /\ [][NextMask]_vars

SpecTScan == InitTScan /\ [][NextTScan]_vars

(***************************************************************************)
(* Vocabulary of the properties                                            *)
(***************************************************************************)
DeclaredDeps(L, n) == {L[n].deps[i] : i \in DOMAIN L[n].deps}

HeldDeps(L, n) == DeclaredDeps(L, n) \cap DOMAIN L

RECURSIVE Reachable(_, _, _)
Reachable(L, S, k) ==
    IF k = 0 THEN S ELSE Reachable(L, S \cup UNION {HeldDeps(L, m) : m \in S}, k - 1)

HasCycle(L) ==
    \E n \in DOMAIN L : n \in Reachable(L, HeldDeps(L, n), Cardinality(DOMAIN L))

DepsResolve(L) == \A n \in DOMAIN L : DeclaredDeps(L, n) \subseteq DOMAIN L

Destroys(trace, layer) ==
    {i \in DOMAIN trace : trace[i].ev = "destroy" /\ trace[i].obj = layer}

Removes(trace, layer) ==
    {i \in DOMAIN trace : trace[i].ev = "remove" /\ trace[i].obj = layer}

DestroyedOnceThenRemoved(trace, layer) ==
    /\ Cardinality(Destroys(trace, layer)) = 1
    /\ \E i \in Destroys(trace, layer) : \E j \in Removes(trace, layer) : i < j

ChunkSpan(c) == c.spans[1].chunk_size

ChunkAddresses(c) == (c.chunk_end - ChunkSpan(c))..(c.chunk_end - 1)

ScanRange == bounds.min_address..(bounds.max_address - 1)

\* first address of a chunk in the address space of the scanned layer
ChunkStart(c) ==
    c.chunk_end - (IF Len(c.spans) = 2
                   THEN c.spans[1].chunk_size + c.spans[2].chunk_size
                   ELSE c.spans[1].chunk_size)

\* what the consumer has received if every call of cs returned
RECURSIVE MatchesOf(_)
MatchesOf(cs) ==
    IF cs = <<>> THEN <<>>
    ELSE MatchesOf(SubSeq(cs, 1, Len(cs) - 1))
             \o (IF cs[Len(cs)].outcome = "returned"
                 THEN ScannerMatches(scanner, cs[Len(cs)].data, cs[Len(cs)].data_offset)
                 ELSE <<>>)

SpanReadable(sp) == \A x \in sp.address..(sp.address + sp.chunk_size - 1) :
                        <<sp.layer_name, x>> \notin env.bad

\* the addresses of a chunk that lie in a span that can be read
KeptAddresses(c) ==
    {x \in (0 - MaxOverlap)..MaxAddr : \E k \in DOMAIN c.spans :
        /\ SpanReadable(c.spans[k])
        /\ c.spans[k].address <= x
        /\ x < c.spans[k].address + c.spans[k].chunk_size}

\* the tuple of a translation table that maps address x, and the cell it maps x to
TupleAt(tbl, x) ==
    tbl[CHOOSE k \in DOMAIN tbl : tbl[k].offset <= x /\ x < tbl[k].offset + tbl[k].length]

Image(tbl, x) == <<TupleAt(tbl, x).layer, TupleAt(tbl, x).mapped_offset + (x - TupleAt(tbl, x).offset)>>

IORange == io.offset..(io.offset + io.length - 1)

\* the value a layer would publish for a key if it went by its own
\* constructor argument first and by its dependencies in their order next
RECURSIVE OwnOrDependency(_, _)
RECURSIVE FirstOfDependencies(_, _)
OwnOrDependency(name, key) ==
    IF built[name].metadata # None /\ key \in DOMAIN built[name].metadata[1]
    THEN Some(built[name].metadata[1][key])
    ELSE FirstOfDependencies(built[name].deps, key)

FirstOfDependencies(deps, key) ==
    IF deps = <<>> THEN None
    ELSE IF OwnOrDependency(Head(deps), key) # None
    THEN OwnOrDependency(Head(deps), key)
    ELSE FirstOfDependencies(Tail(deps), key)

\* bitwise AND of two naturals
RECURSIVE BitAnd(_, _)
BitAnd(a, b) ==
    IF a = 0 \/ b = 0 THEN 0
    ELSE (a % 2) * (b % 2) + 2 * BitAnd(a \div 2, b \div 2)

Nth(S, j) == CHOOSE x \in S : Cardinality({y \in S : y < x}) = j - 1

(***************************************************************************)
(* C1: after any sequence of add_layer and del_layer calls from an empty   *)
(* Memory, every dependency of every held layer is a held name and the     *)
(* dependency graph of the held layers has no cycle.                       *)
(***************************************************************************)
C1_DependenciesResolveAcyclic == DepsResolve(layers) /\ ~HasCycle(layers)

\* a failed call has just returned on a Memory holding a chain of translation layers
C1_Witness ==
    /\ last.res # "ok"
    /\ \E n \in DOMAIN layers : \E m \in HeldDeps(layers, n) :
          layers[n].kind = "translation" /\ layers[m].kind = "translation"

(***************************************************************************)
(* C2: add_layer raises LayerException whenever the name of the layer is   *)
(* already held, for a DataLayer as for a TranslationLayer, and the layer  *)
(* stored under that name is not replaced.                                 *)
(***************************************************************************)
C2_DuplicateNameRejected ==
    (last.op = "add_layer" /\ last.name \in DOMAIN last.pre)
        => /\ last.res = "LayerException"
           /\ layers[last.name] = last.pre[last.name]

(***************************************************************************)
(* C3 as stated: add_layer of a TranslationLayer T raises LayerException   *)
(* exactly when some dependency of T is not held; then T is not inserted;  *)
(* with every dependency held and the name free, T is inserted.            *)
(***************************************************************************)
C3_FailsExactlyOnUnmetDependency ==
    (last.op = "add_layer" /\ last.arg[1].kind = "translation")
        => LET T == last.arg[1]
               unmet == \E i \in DOMAIN T.deps : T.deps[i] \notin DOMAIN last.pre
           IN /\ (last.res = "LayerException") <=> unmet
              /\ unmet => layers = last.pre
              /\ (~unmet /\ T.name \notin DOMAIN last.pre)
                    => layers = Put(last.pre, T.name, T)

(***************************************************************************)
(* C3 amended: add_layer of a TranslationLayer T raises LayerException     *)
(* exactly when the name of T is already held or some dependency of T is   *)
(* not held; then Memory is unchanged; otherwise T is inserted under its   *)
(* name.                                                                   *)
(***************************************************************************)
C3_FailsExactlyOnDuplicateOrUnmet ==
    (last.op = "add_layer" /\ last.arg[1].kind = "translation")
        => LET T == last.arg[1]
               unmet == \E i \in DOMAIN T.deps : T.deps[i] \notin DOMAIN last.pre
               taken == T.name \in DOMAIN last.pre
           IN /\ (last.res = "LayerException") <=> (unmet \/ taken)
              /\ (unmet \/ taken) => layers = last.pre
              /\ ~(unmet \/ taken)
                    => /\ last.res = "ok"
                       /\ DOMAIN layers = (DOMAIN last.pre) \cup {T.name}
                       /\ layers[T.name] = T
                       /\ \A n \in DOMAIN last.pre : layers[n] = last.pre[n]

\* a translation layer with a free name, one dependency held and one missing, was refused
C3_Witness ==
    /\ last.op = "add_layer"
    /\ last.arg[1].kind = "translation"
    /\ last.res = "LayerException"
    /\ last.name \notin DOMAIN last.pre
    /\ \E i \in DOMAIN last.arg[1].deps : last.arg[1].deps[i] \in DOMAIN last.pre
    /\ \E i \in DOMAIN last.arg[1].deps : last.arg[1].deps[i] \notin DOMAIN last.pre

(***************************************************************************)
(* C4: del_layer of a held name raises LayerException if and only if some  *)
(* other held layer lists the name among its dependencies; otherwise it    *)
(* succeeds and the name is no longer held.                                *)
(***************************************************************************)
C4_DelFailsIffDependedUpon ==
    (last.op = "del_layer" /\ last.name \in DOMAIN last.pre)
        => LET dependedUpon ==
                   \E m \in (DOMAIN last.pre) \ {last.name} :
                       last.name \in DeclaredDeps(last.pre, m)
           IN /\ (last.res = "LayerException") <=> dependedUpon
              /\ ~dependedUpon => (last.res = "ok" /\ last.name \notin DOMAIN layers)

\* del_layer was refused in a Memory that also holds layers not depending on the target
C4_Witness ==
    /\ last.op = "del_layer"
    /\ last.res = "LayerException"
    /\ last.name \in DOMAIN last.pre
    /\ \E m \in DOMAIN last.pre : last.name \in DeclaredDeps(last.pre, m)
    /\ \E m \in (DOMAIN last.pre) \ {last.name} : last.name \notin DeclaredDeps(last.pre, m)

(***************************************************************************)
(* C5: whenever add_layer or del_layer raises, the name-to-layer mapping   *)
(* is what it was before the call and the call invoked no destroy().       *)
(***************************************************************************)
C5_FailureLeavesMemoryUntouched ==
    (last.op \in {"add_layer", "del_layer"} /\ last.res # "ok")
        => /\ layers = last.pre
           /\ \A i \in DOMAIN last.trace : last.trace[i].ev # "destroy"

\* del_layer of a depended-upon data layer has just raised
C5_Witness ==
    /\ last.op = "del_layer"
    /\ last.res = "LayerException"
    /\ last.name \in DOMAIN layers
    /\ layers[last.name].kind = "data"

(***************************************************************************)
(* C6: a layer object stops being held only through del_layer, its         *)
(* destroy() having been invoked exactly once before it is removed.        *)
(***************************************************************************)
C6_DroppedOnlyByDelAfterDestroy ==
    [][\A n \in DOMAIN layers :
          (n \notin DOMAIN layers' \/ layers'[n] # layers[n])
              => /\ last'.op = "del_layer"
                 /\ DestroyedOnceThenRemoved(last'.trace, layers[n])]_vars

(***************************************************************************)
(* C7: from every reachable Memory, add_layer(X) followed by               *)
(* del_layer(X.name) leaves the name-to-layer mapping as it was before     *)
(* the add_layer, for every layer X.                                       *)
(***************************************************************************)
C7_AddThenDelRestores ==
    [][(/\ last.op = "add_layer"
        /\ last.res = "ok"
        /\ last'.op = "del_layer"
        /\ last'.name = last.name) => layers' = last.pre]_vars

(***************************************************************************)
(* C8: check_cycles signals an error whenever the dependency graph of the  *)
(* held layers has a cycle, and signals nothing when it has none.          *)
(***************************************************************************)
C8_CheckCyclesFlagsCycles ==
    last.op = "check_cycles" => ((last.res # "ok") <=> HasCycle(layers))

(***************************************************************************)
(* C9: scan called with explicit bounds min_address > max_address fails    *)
(* with ValueError, also when both lie inside the layer; it never          *)
(* completes as an empty result sequence.                                  *)
(***************************************************************************)
C9_ReversedBoundsRaiseValueError ==
    (/\ args.min_address # None
     /\ args.max_address # None
     /\ args.min_address[1] > args.max_address[1]
     /\ pc \in {"raised", "done"}) => (pc = "raised" /\ exc = "ValueError")

(***************************************************************************)
(* C10: with chunk_size C >= 1 and overlap O >= 0, every chunk yielded by  *)
(* the default _scan_iterator of a gapless DataLayer over [a, b) has size  *)
(* at most C + O, and every address of [a, b) lies in some yielded chunk:  *)
(* all of them once the iterator has ended, and those below the head of    *)
(* the iterator while it runs.                                             *)
(***************************************************************************)
C10_ChunkSizeAndCoverage ==
    /\ \A i \in DOMAIN chunks :
          ChunkSpan(chunks[i]) <= scanner.chunk_size + scanner.overlap
    /\ \A x \in ScanRange :
          (pc = "done" \/ (pc \in {"loop", "yielded"} /\ x < it.offset))
              => \E i \in DOMAIN chunks : x \in ChunkAddresses(chunks[i])

\* a scan with overlap ended after at least three chunks, one of them of full size
C10_Witness ==
    /\ pc = "done"
    /\ Len(chunks) >= 3
    /\ scanner.overlap >= 1
    /\ \E i \in DOMAIN chunks :
          ChunkSpan(chunks[i]) = scanner.chunk_size + scanner.overlap

(***************************************************************************)
(* C11: the starts of two successive chunks of the default iterator of a   *)
(* DataLayer differ by exactly chunk_size, except possibly for the last    *)
(* two chunks, so that the earlier chunk ends overlap bytes after the      *)
(* start of the later one.                                                 *)
(***************************************************************************)
C11_StartsAdvanceByChunkSize ==
    \A i \in DOMAIN chunks :
        i + 2 <= Len(chunks)
            => /\ ChunkStart(chunks[i + 1]) = ChunkStart(chunks[i]) + scanner.chunk_size
               /\ chunks[i].chunk_end - scanner.overlap = ChunkStart(chunks[i + 1])

(***************************************************************************)
(* C15: in sequential mode, when the scanner raises at chunk k the scan    *)
(* ends without raising, the consumer has received exactly the matches of  *)
(* the chunks before k in their order, and no later chunk is produced,     *)
(* read or scanned.                                                        *)
(***************************************************************************)
C15_ScannerExceptionEndsScanSilently ==
    \A k \in DOMAIN calls :
        calls[k].outcome = "raised"
            => /\ pc = "caught"
               /\ exc = ""
               /\ Len(calls) = k
               /\ Len(chunks) = k
               /\ matches = MatchesOf(SubSeq(calls, 1, k - 1))
               /\ \A j \in 1..(k - 1) : calls[j].outcome = "returned"

\* the scanner raised at the third chunk with bytes left to scan
C15_Witness ==
    /\ pc = "caught"
    /\ Len(calls) = 3
    /\ calls[3].outcome = "raised"
    /\ matches # <<>>
    /\ chunks[3].chunk_end < bounds.max_address

(***************************************************************************)
(* C16: when the read of a span raises InvalidAddressException, only that  *)
(* span is left out of the data of its chunk: the data is made of the      *)
(* bytes of the other spans in their order, the scanner is still called    *)
(* for the chunk, and the chunks after it are still read and scanned up to *)
(* the end of the range.                                                   *)
(***************************************************************************)
C16_OnlyUnreadableSpanOmitted ==
    /\ \A i \in DOMAIN calls :
          LET kept == KeptAddresses(chunks[i]) IN
          /\ calls[i].chunk_end = chunks[i].chunk_end
          /\ calls[i].outcome = "returned"
          /\ Len(calls[i].data) = Cardinality(kept)
          /\ \A j \in 1..Cardinality(kept) :
                calls[i].data[j] = Content(scanLayer.name, Nth(kept, j))
    /\ pc \in {"resume", "loop", "done"} => Len(calls) = Len(chunks)
    /\ pc # "caught"
    /\ pc = "done"
          => \A x \in ScanRange : \E i \in DOMAIN calls :
                ChunkStart(chunks[i]) <= x /\ x < chunks[i].chunk_end

\* a scan ended in which a chunk of two spans lost its first span only and a
\* later chunk was read whole
C16_Witness ==
    /\ pc = "done"
    /\ \E i \in DOMAIN calls : \E j \in DOMAIN calls :
          /\ i < j
          /\ Len(chunks[i].spans) = 2
          /\ ~SpanReadable(chunks[i].spans[1])
          /\ SpanReadable(chunks[i].spans[2])
          /\ calls[i].data # <<>>
          /\ Len(calls[j].data) = chunks[j].chunk_end - ChunkStart(chunks[j])

(***************************************************************************)
(* C18: in sequential mode the scanner is called once per chunk in the     *)
(* order of the iterator, the data_offset of its calls is strictly         *)
(* ascending, and the matches of an earlier chunk reach the consumer       *)
(* before those of a later chunk.                                          *)
(***************************************************************************)
C18_SequentialOrder ==
    /\ Len(calls) <= Len(chunks)
    /\ \A i \in DOMAIN calls : calls[i].chunk_end = chunks[i].chunk_end
    /\ \A i \in DOMAIN calls : \A j \in DOMAIN calls :
          i < j => calls[i].data_offset < calls[j].data_offset
    /\ matches = MatchesOf(calls)

(***************************************************************************)
(* C12: every chunk yielded by the iterator of a TranslationLayer lies     *)
(* within one tuple of the mapping: its addresses are all mapped by that   *)
(* tuple, it crosses no gap, and its span is the image of these addresses  *)
(* in the layer the tuple maps to.                                         *)
(***************************************************************************)
C12_ChunkWithinOneMappingTuple ==
    \A i \in DOMAIN chunks :
        LET c == chunks[i]
            sp == c.spans[1]
            lo == c.chunk_end - sp.chunk_size
        IN /\ Len(c.spans) = 1
           /\ \E k \in DOMAIN table[1] :
                 LET t == table[1][k] IN
                 /\ t.offset <= lo
                 /\ c.chunk_end <= t.offset + t.length
                 /\ sp.layer_name = t.layer
                 /\ sp.address = t.mapped_offset + (lo - t.offset)

(***************************************************************************)
(* C13: a write of value at offset through a TranslationLayer that         *)
(* succeeds has stored, for every mapping tuple (o, mo, l, layer) of the   *)
(* written range, exactly the slice value[o - offset : o - offset + l] at  *)
(* mo of that layer: every written address holds its own byte of value in  *)
(* the cell it is mapped to, and no other cell has changed.                *)
(***************************************************************************)
C13_WriteStoresSlicePerTuple ==
    (io.op = "write" /\ io.res = "ok")
        => /\ \A x \in IORange :
                 /\ Mapped(table[1], x)
                 /\ Image(table[1], x) \in DOMAIN store
                 /\ store[Image(table[1], x)] = io.value[x - io.offset + 1]
           /\ \A c \in DOMAIN store :
                 (\A x \in IORange : c # Image(table[1], x))
                     => (c \in DOMAIN io.pre /\ store[c] = io.pre[c])

C19_MetadataOwnThenDependencies ==
    \A name \in DOMAIN built : \A key \in MetaKeys :
        OwnOrDependency(name, key) # None
            => Metadata(built, direct_metadata, name, key) = OwnOrDependency(name, key)

(***************************************************************************)
(* C20: free_layer_name(prefix) returns prefix followed by the decimal     *)
(* form of the smallest k >= 1 for which that name is not held; the        *)
(* returned name is not held, and the call leaves the Memory as it was.    *)
(***************************************************************************)
C20_FreeLayerNameSmallestUnused ==
    last.op = "free_layer_name"
        => /\ \E k \in 1..(MaxCount + 1) :
                 /\ last.msg = last.name \o ToString(k)
                 /\ \A j \in 1..(k - 1) : (last.name \o ToString(j)) \in DOMAIN last.pre
           /\ last.msg \notin DOMAIN layers
           /\ last.res = "ok"
           /\ layers = last.pre

\* with layer1 to layer10 held and layer11 free, "layer" gave layer11
C20_Witness ==
    /\ last.op = "free_layer_name"
    /\ last.name = "layer"
    /\ last.msg = "layer11"
    /\ "layer10" \in DOMAIN layers

(***************************************************************************)
(* C17: for a scanner that is a function of (data, data_offset) and a      *)
(* layer that does not change, the set of matches of a parallel scan,      *)
(* whatever the interleaving of the workers, is the set of matches of the  *)
(* sequential scan of the same layer and bounds.                           *)
(***************************************************************************)
C17_ParallelMatchesEqualSequential ==
    (pc = "done" /\ env.parallel /\ prior # None)
        => {matches[i] : i \in DOMAIN matches} = {prior[1][i] : i \in DOMAIN prior[1]}

\* a parallel scan with an unreadable chunk ended after its workers had
\* finished out of the order of the chunks
C17_Witness ==
    /\ pc = "done"
    /\ env.parallel
    /\ prior # None
    /\ matches # <<>>
    /\ env.bad # {}
    /\ \E i \in DOMAIN calls : \E j \in DOMAIN calls :
          i < j /\ calls[i].chunk_end > calls[j].chunk_end

(***************************************************************************)
(* C21: for every layer with maximum_address >= 1, address_mask has a 1 in *)
(* every bit position where maximum_address has one, powers of two         *)
(* included: maximum_address AND address_mask = maximum_address.           *)
(***************************************************************************)
C21_MaskCoversMaximumAddress ==
    mask # None => BitAnd(scanLayer.maximum_address, mask[1]) = scanLayer.maximum_address

(***************************************************************************)
(* C22: for every scanner with chunk_size >= 1 and overlap >= 0, overlap   *)
(* >= chunk_size included, and every finite range, the default iterator    *)
(* yields finitely many chunks and ends: the remaining length is strictly  *)
(* smaller each time the iterator moves on from a chunk.                   *)
(***************************************************************************)
C22_RemainingLengthDecreases ==
    [][(pc = "resume" /\ pc' = "loop") => it'.length < it.length]_vars

(***************************************************************************)
(* C23: whenever the scanner is called with data that is not empty,        *)
(* data_offset is the address of data[0] in the scanned layer, for the     *)
(* chunks of the default iterator and for chunks of several spans of a     *)
(* caller's iterator, some of whose spans were skipped as unreadable.      *)
(***************************************************************************)
C23_DataOffsetIsAddressOfFirstByte ==
    \A i \in DOMAIN calls :
        calls[i].data # <<>>
            => calls[i].data[1] = Content(scanLayer.name, calls[i].data_offset)

(***************************************************************************)
(* C24: in parallel mode, under every interleaving of the workers, the     *)
(* shared progress value never decreases during a scan, and it is always   *)
(* 0 or the end of a chunk for which the scanner has returned.             *)
(***************************************************************************)
C24_ProgressMonotonicAndCompleted ==
    /\ [](pc = "pool"
            => \/ progress = 0
               \/ \E i \in DOMAIN results :
                     results[i].returned /\ chunks[i].chunk_end = progress)
    /\ [][(pc = "pool" /\ pc' = "pool") => progress' >= progress]_vars

(***************************************************************************)
(* C25: a layer constructed without metadata for architecture and os, no   *)
(* dependency of which defines them, reports 'Unknown' for both, whatever  *)
(* layers were constructed before or after it and with whatever metadata;  *)
(* and constructing a layer changes the metadata of no layer that does not *)
(* depend on it.                                                           *)
(***************************************************************************)
C25_DefaultsUnaffectedByOtherLayers ==
    /\ [](\A name \in DOMAIN built : \A key \in DOMAIN MetadataDefaults :
            OwnOrDependency(name, key) = None
                => Metadata(built, direct_metadata, name, key) = Some("Unknown"))
    /\ [][\A name \in DOMAIN built : \A key \in MetaKeys :
            Metadata(built', direct_metadata', name, key)
                = Metadata(built, direct_metadata, name, key)]_vars

====
